---- MODULE Spec2Model ----
(***************************************************************************)
(* Model of packages/remix-node/upload/fileUploadHandler.ts:               *)
(*   - createFileUploadHandler: the handler's steps between its awaits,    *)
(*     the fs.WriteStream it creates (open, buffered writes, close, all    *)
(*     completed asynchronously by the runtime), and the filesystem;       *)
(*   - NodeOnDiskFile: slice and the three read operations, with the       *)
(*     slicer Transform a sliced file keeps in its `slicer` field.         *)
(***************************************************************************)
EXTENDS Integers, Sequences, FiniteSets, TLC

\* ------------------------------------------------------------- bounds
MaxTime == 2        \* values of new Date().getTime() seen by the model
MaxChunks == 2      \* chunks one input stream delivers at most
MaxChunkLen == 2    \* length of one chunk at most
MaxLimit == 2       \* the configured maxFileSize
MaxFileLen == 2     \* length of the backing file read through NodeOnDiskFile
MaxReads == 2       \* reads of one NodeOnDiskFile

Invocations == {1, 2}           \* concurrent calls of one handler
Objects == {1, 2, 3}            \* a NodeOnDiskFile, a slice, a slice of a slice
NoFile == -1                    \* stat fails: nothing at the path
NoValue == "undefined"          \* undefined, where a string is expected
Omitted == -2                   \* undefined, where a number is expected
\* A path is the first candidate (0) or the candidate with "-<t>" put before
\* the extension (t): distinct timestamps give distinct paths, none equal to
\* the first candidate.
Paths == 0 .. MaxTime
\* An inode is the file that was at the first candidate before any upload (0)
\* or the file created by invocation i's open (i).
Inodes == {0} \cup Invocations

VARIABLES
    avoidFileConflicts, \* option, line 89
    now,                \* the clock read by new Date().getTime()
    dirMade,            \* whether mkdir has run
    disk,               \* path -> inode or NoFile
    content,            \* inode -> bytes
    h,                  \* per invocation: the handler's locals and position
    ws,                 \* per invocation: its fs.WriteStream
    files,              \* the NodeOnDiskFile objects made so far
    slicers,            \* the stream-slice Transform objects made so far
    origin,             \* per NodeOnDiskFile: the slice call that made it
    readLog             \* per NodeOnDiskFile: results of its reads, in order

vars == <<avoidFileConflicts, now, dirMade, disk, content, h, ws,
          files, slicers, origin, readLog>>
cfgVars == <<avoidFileConflicts>>
fileVars == <<files, slicers, origin, readLog>>
uploadVars == <<avoidFileConflicts, now, dirMade, disk, content, h, ws>>

\* The option maxFileSize (line 92), set to a small value.
maxFileSize == MaxLimit

\* ------------------------------------------------------------- data
\* The bytes of invocation i's input stream: byte k is 10*i + k, so every
\* byte names its stream and its position.
Original(i, n) == [k \in 1 .. n |-> 10 * i + k]

FieldName(i) == i               \* the multipart field's name
ContentType == "image/png"

\* write(2) at the descriptor's offset: overwrite, extend, zero-fill a hole.
WriteAt(c, pos, bytes) ==
    LET n == IF pos + Len(bytes) > Len(c) THEN pos + Len(bytes) ELSE Len(c)
    IN  [k \in 1 .. n |->
            IF k > pos /\ k <= pos + Len(bytes) THEN bytes[k - pos]
            ELSE IF k <= Len(c) THEN c[k]
            ELSE 0]

Exists(p) == disk[p] # NoFile

\* ------------------------------------------------------------- objects
IdleLocals ==
    [pc |-> "idle", uniqueFilepath |-> 0, filepath |-> 0, size |-> 0,
     deleteFile |-> FALSE, consumed |-> 0, fsOps |-> {},
     startedAfter |-> {},
     args |-> [rejected |-> FALSE, dir |-> NoValue, path |-> NoValue],
     result |-> [kind |-> "none"]]

NoStream ==
    [state |-> "none", queue |-> <<>>, ended |-> FALSE, ino |-> NoFile,
     pos |-> 0, handed |-> 0, closeCalls |-> 0, openedAfter |-> {}]

\* new NodeOnDiskFile(filepath, size, type, slicer)
NodeOnDiskFile(filepath, size, type, slicer) ==
    [filepath |-> filepath, size |-> size, type |-> type, slicer |-> slicer]

\* new MeterError(name, maxFileSize)
MeterError(name, limit) ==
    [kind |-> "MeterError", field |-> name, limit |-> limit]

\* ------------------------------------------------------------- handler
\* Skipped without the test of line 104.
Skipped_NoDirCheck(filter, dir, path) ==
    \/ filter = "reject"
    \/ path = NoValue

\* Lines 95-114: the field is skipped when a configured filter answers false,
\* or the directory or the file resolves to nothing.  filter is "none" when
\* no filter is configured.
Skipped(filter, dir, path) ==
    \/ filter = "reject"
    \/ dir = NoValue
    \/ path = NoValue

\* Exceeds with >= for >.
Exceeds_AtLimit(size) == size >= maxFileSize

\* Line 130.
Exceeds(size) == size > maxFileSize

\* writeFileStream.write(chunk): the chunk is buffered by the stream.
Write(w, chunk) ==
    [w EXCEPT !.queue = Append(@, chunk), !.handed = @ + Len(chunk)]

\* writeFileStream.close(): end() the stream; it closes once flushed.
Close(w) == [w EXCEPT !.ended = TRUE, !.closeCalls = @ + 1]

\* createWriteStream(filepath): the open is issued, not yet performed.
CreateWriteStream == [NoStream EXCEPT !.state = "opening"]

\* The handler settles with `result`: its locals are gone; what the model
\* keeps is the path it worked on and the record of what it did.
Settled(l, result) ==
    [l EXCEPT !.pc = "done", !.result = result, !.uniqueFilepath = 0,
              !.size = 0, !.deleteFile = FALSE, !.consumed = 0]

\* Lines 94-120, up to the first await that touches the filesystem.  The
\* invocations are numbered in the order they are made.
Invoke(i) ==
    /\ h[i].pc = "idle"
    /\ \A j \in Invocations : j < i => h[j].pc # "idle"
    /\ \E filter \in {"none", "accept", "reject"},
          dir \in {NoValue, "dir"}, path \in {NoValue, "file"} :
          LET started == [h[i] EXCEPT
                            !.startedAfter =
                                {j \in Invocations : h[j].pc = "done"},
                            !.args = [rejected |-> filter = "reject", dir |-> dir,
                                      path |-> path]]
          IN  h' = [h EXCEPT ![i] =
                 IF Skipped(filter, dir, path)
                 THEN Settled(started, [kind |-> NoValue])
                 ELSE [started EXCEPT
                         !.pc = IF avoidFileConflicts THEN "uniqueFile"
                                ELSE "mkdir",
                         !.uniqueFilepath = 0, !.filepath = 0]]
    /\ UNCHANGED <<cfgVars, now, dirMade, disk, content, ws, fileVars>>

\* Lines 72-84: one stat of uniqueFile's loop and what follows it.
UniqueFile(i) ==
    /\ h[i].pc = "uniqueFile"
    /\ h' = [h EXCEPT ![i] =
          IF Exists(h[i].uniqueFilepath)
          THEN [@ EXCEPT !.uniqueFilepath = now, !.fsOps = @ \cup {"stat"}]
          ELSE [@ EXCEPT !.filepath = h[i].uniqueFilepath, !.pc = "mkdir",
                         !.fsOps = @ \cup {"stat"}]]
    /\ UNCHANGED <<cfgVars, now, dirMade, disk, content, ws, fileVars>>

\* new Date().getTime() grows as time passes.  The clock is read only by
\* uniqueFile's loop body, which runs when its stat finds a file, so the
\* clock is advanced only when some invocation is about to read it.
Tick ==
    /\ now < MaxTime
    /\ \E i \in Invocations :
          h[i].pc = "uniqueFile" /\ Exists(h[i].uniqueFilepath)
    /\ now' = now + 1
    /\ UNCHANGED <<cfgVars, dirMade, disk, content, h, ws, fileVars>>

\* Lines 122-128: mkdir, then createWriteStream and the locals, up to the
\* await of the first chunk.
Mkdir(i) ==
    /\ h[i].pc = "mkdir"
    /\ dirMade' = TRUE
    /\ ws' = [ws EXCEPT ![i] = CreateWriteStream]
    /\ h' = [h EXCEPT ![i] = [@ EXCEPT !.pc = "copy", !.size = 0,
                                       !.deleteFile = FALSE,
                                       !.fsOps = @ \cup {"mkdir", "open"}]]
    /\ UNCHANGED <<cfgVars, now, disk, content, fileVars>>

\* Lines 128-135 and, when the limit is passed, 136-138: one chunk arrives.
Chunk(i) ==
    /\ h[i].pc = "copy"
    /\ h[i].consumed < MaxChunks
    /\ \E len \in 1 .. MaxChunkLen :
          LET size == h[i].size + len
              chunk == [k \in 1 .. len |-> Original(i, size)[h[i].size + k]]
          IN  IF Exceeds(size)
              THEN /\ h' = [h EXCEPT ![i] =
                            [@ EXCEPT !.size = size, !.consumed = @ + 1,
                                      !.deleteFile = TRUE, !.pc = "rm"]]
                   /\ ws' = [ws EXCEPT ![i] = Close(@)]
              ELSE /\ h' = [h EXCEPT ![i] =
                            [@ EXCEPT !.size = size, !.consumed = @ + 1]]
                   /\ ws' = [ws EXCEPT ![i] = Write(@, chunk)]
    /\ UNCHANGED <<cfgVars, now, dirMade, disk, content, fileVars>>

\* Lines 136-143: the input ends; close, and return the NodeOnDiskFile.
StreamEnd(i) ==
    /\ h[i].pc = "copy"
    /\ ws' = [ws EXCEPT ![i] = Close(@)]
    /\ h' = [h EXCEPT ![i] =
          Settled(@, [kind |-> "file",
                      file |-> NodeOnDiskFile(h[i].filepath, h[i].size,
                                              ContentType, 0)])]
    /\ UNCHANGED <<cfgVars, now, dirMade, disk, content, fileVars>>

\* StreamError with the close of line 137 outside a finally: not reached.
StreamError_NoClose(i) ==
    /\ h[i].pc = "copy"
    /\ h' = [h EXCEPT ![i] = Settled(@, [kind |-> "StreamError"])]
    /\ UNCHANGED <<cfgVars, now, dirMade, disk, content, ws, fileVars>>

\* Lines 128, 136-141: the input stream throws (a failure, a cancellation);
\* close, deleteFile is false, the error propagates.
StreamError(i) ==
    /\ h[i].pc = "copy"
    /\ ws' = [ws EXCEPT ![i] = Close(@)]
    /\ h' = [h EXCEPT ![i] = Settled(@, [kind |-> "StreamError"])]
    /\ UNCHANGED <<cfgVars, now, dirMade, disk, content, fileVars>>

\* Lines 138-140, then the throw of line 132 reaches the caller: rm unlinks
\* the path if something is there, and its failure is swallowed.
Rm(i) ==
    /\ h[i].pc = "rm"
    /\ disk' = [disk EXCEPT ![h[i].filepath] = NoFile]
    /\ h' = [h EXCEPT ![i] =
          Settled([@ EXCEPT !.fsOps = @ \cup {"rm"}],
                  MeterError(FieldName(i), maxFileSize))]
    /\ UNCHANGED <<cfgVars, now, dirMade, content, ws, fileVars>>

\* ------------------------------------------------------------- WriteStream
\* What the runtime does for a WriteStream, each step at a time of its own
\* choosing: open(path, "w") creates or truncates, each buffered chunk is
\* written at the descriptor's offset, and an ended stream closes once its
\* buffer is empty.

\* Truncated for a stream opened without truncation (flags "r+").
Truncated_Kept(c) == c

\* open with flag "w" (createWriteStream's default) empties the file.
Truncated(c) == <<>>

FsOpen(i) ==
    /\ ws[i].state = "opening"
    /\ LET p == h[i].filepath
           ino == IF Exists(p) THEN disk[p] ELSE i
       IN  /\ disk' = [disk EXCEPT ![p] = ino]
           /\ content' = [content EXCEPT ![ino] = Truncated(@)]
           /\ ws' = [ws EXCEPT ![i] =
                 [@ EXCEPT !.state = "open", !.ino = ino, !.pos = 0,
                           !.openedAfter =
                              {j \in Invocations : ws[j].state = "closed"}]]
    /\ UNCHANGED <<cfgVars, now, dirMade, h, fileVars>>

FsWrite(i) ==
    /\ ws[i].state = "open"
    /\ ws[i].queue # <<>>
    /\ content' = [content EXCEPT ![ws[i].ino] =
                      WriteAt(@, ws[i].pos, Head(ws[i].queue))]
    /\ ws' = [ws EXCEPT ![i] =
          [@ EXCEPT !.queue = Tail(@), !.pos = @ + Len(Head(ws[i].queue))]]
    /\ UNCHANGED <<cfgVars, now, dirMade, disk, h, fileVars>>

FsClose(i) ==
    /\ ws[i].state = "open"
    /\ ws[i].queue = <<>>
    /\ ws[i].ended
    /\ ws' = [ws EXCEPT ![i] = [@ EXCEPT !.state = "closed"]]
    /\ UNCHANGED <<cfgVars, now, dirMade, disk, content, h, fileVars>>

\* ------------------------------------------------------------- uploads
\* The state after createFileUploadHandler(options): no invocation yet; the
\* first candidate path may hold a file from before.
Init ==
    /\ avoidFileConflicts \in BOOLEAN
    /\ now = 1
    /\ \E pre \in BOOLEAN :
          /\ dirMade = pre
          /\ disk = [p \in Paths |-> IF p = 0 /\ pre THEN 0 ELSE NoFile]
          /\ content = [n \in Inodes |-> IF n = 0 /\ pre THEN Original(0, 1)
                                         ELSE <<>>]
    /\ h = [i \in Invocations |-> IdleLocals]
    /\ ws = [i \in Invocations |-> NoStream]
    /\ files = <<>>
    /\ slicers = <<>>
    /\ origin = <<>>
    /\ readLog = <<>>

Next ==
    \/ Tick
    \/ \E i \in Invocations :
          \/ Invoke(i)
          \/ UniqueFile(i)
          \/ Mkdir(i)
          \/ Chunk(i)
          \/ StreamEnd(i)
          \/ StreamError(i)
          \/ Rm(i)
          \/ FsOpen(i)
          \/ FsWrite(i)
          \/ FsClose(i)

Spec == Init /\ [][Next]_vars

\* ------------------------------------------------------------- NodeOnDiskFile
\* Slicer given the slice's length where its end belongs.
Slicer_ByLength(start, end) ==
    [start |-> start, end |-> end - start, offset |-> 0, ended |-> FALSE]

\* streamSlice.slice(start, end): a Transform that lets through the bytes at
\* offsets [start, end) of everything written to it, counted from its making.
Slicer(start, end) ==
    [start |-> start, end |-> end, offset |-> 0, ended |-> FALSE]

\* What a slicer lets through of `bytes`, written to it at its offset.
SliceOut(sl, bytes) ==
    LET lo == IF sl.start > sl.offset THEN sl.start - sl.offset ELSE 0
        hi == IF sl.end - sl.offset < Len(bytes) THEN sl.end - sl.offset
              ELSE Len(bytes)
    IN  IF hi <= lo THEN <<>> ELSE SubSeq(bytes, lo + 1, hi)

\* Lines 162-163: the defaults of slice's arguments.
SliceStart(f, start) == IF start = Omitted THEN 0 ELSE start
SliceEnd(f, end) == IF end = Omitted THEN f.size ELSE end

\* Lines 164-169: the object slice returns; k is the new slicer's place.
Sliced(f, start, end, k) ==
    NodeOnDiskFile(f.filepath, SliceEnd(f, end) - SliceStart(f, start),
                   f.type, k)

\* Lines 161-170.
Slice(n) ==
    /\ Len(files) + 1 \in Objects
    /\ \E start \in {Omitted} \cup (0 .. MaxFileLen),
          end \in {Omitted} \cup (0 .. MaxFileLen) :
          LET f == files[n]
              k == Len(slicers) + 1
          IN  /\ slicers' = Append(slicers,
                    Slicer(SliceStart(f, start), SliceEnd(f, end)))
              /\ files' = Append(files, Sliced(f, start, end, k))
              /\ origin' = Append(origin,
                    [receiver |-> n, start |-> start, end |-> end])
              /\ readLog' = Append(readLog, <<>>)
    /\ UNCHANGED uploadVars

\* createReadStream(this.filepath), piped into this.slicer when there is one
\* (lines 173-176, 189-192, 197-200), read to its end: what the reader gets.
\* The source ends the slicer it is piped into; an ended Transform takes no
\* more writes and has already emitted its "end", so a read through it
\* delivers nothing and fails or never completes.
Delivered(f) ==
    IF ~Exists(f.filepath) THEN [ok |-> FALSE, bytes |-> <<>>]
    ELSE IF f.slicer = 0
         THEN [ok |-> TRUE, bytes |-> content[disk[f.filepath]]]
    ELSE IF slicers[f.slicer].ended THEN [ok |-> FALSE, bytes |-> <<>>]
    ELSE [ok |-> TRUE,
          bytes |-> SliceOut(slicers[f.slicer], content[disk[f.filepath]])]

\* The slicer after the read: it has counted the file's bytes and is ended.
Piped(f) ==
    IF f.slicer = 0 \/ ~Exists(f.filepath) \/ slicers[f.slicer].ended
    THEN slicers
    ELSE [slicers EXCEPT ![f.slicer] =
            [@ EXCEPT !.offset = @ + Len(content[disk[f.filepath]]),
                      !.ended = TRUE]]

\* One read of files[n] to its end; the log keeps the bytes it delivered.
Read(n) ==
    /\ Len(readLog[n]) < MaxReads
    /\ readLog' = [readLog EXCEPT ![n] = Append(@, Delivered(files[n]))]
    /\ slicers' = Piped(files[n])
    /\ UNCHANGED <<uploadVars, files, origin>>

\* Lines 172-184: the bytes collected into one buffer.
ArrayBuffer(n) == Read(n)
\* Lines 188-194: the returned stream, read to its end.
Stream(n) == Read(n)
\* Lines 196-203: the bytes handed to readableStreamToString.
Text(n) == Read(n)

\* A file of 0 .. MaxFileLen bytes on disk and the NodeOnDiskFile made for
\* it, as a finished and flushed upload leaves them.
InitFile ==
    /\ avoidFileConflicts = TRUE
    /\ now = 1
    /\ dirMade = TRUE
    /\ \E len \in 0 .. MaxFileLen :
          /\ disk = [p \in Paths |-> IF p = 0 THEN 0 ELSE NoFile]
          /\ content = [n \in Inodes |-> IF n = 0 THEN Original(0, len)
                                         ELSE <<>>]
          /\ files = <<NodeOnDiskFile(0, len, ContentType, 0)>>
    /\ h = [i \in Invocations |-> IdleLocals]
    /\ ws = [i \in Invocations |-> NoStream]
    /\ slicers = <<>>
    /\ origin = <<[receiver |-> 0, start |-> Omitted, end |-> Omitted]>>
    /\ readLog = <<<<>>>>

NextFile ==
    \/ \E n \in 1 .. Len(files) : Slice(n)
    \/ \E n \in 1 .. Len(files) : ArrayBuffer(n)
    \/ \E n \in 1 .. Len(files) : Stream(n)
    \/ \E n \in 1 .. Len(files) : Text(n)

SpecFile == InitFile /\ [][NextFile]_vars

\* ------------------------------------------------------------- properties
Returned(i, kind) == h[i].pc = "done" /\ h[i].result.kind = kind
Flushed(i) == ws[i].state = "closed"
Range(q) == {q[k] : k \in 1 .. Len(q)}

\* C1 (as claimed): when the streamed bytes exceed maxFileSize the handler
\* fails with a MeterError carrying the field name and the limit, and once
\* that error has reached the caller the partial file is not on disk, also
\* after the stream's pending file creation has taken effect.
C1_PartialFileGone ==
    \A i \in Invocations :
        Returned(i, "MeterError") =>
            /\ h[i].result.field = FieldName(i)
            /\ h[i].result.limit = maxFileSize
            /\ ws[i].state \in {"open", "closed"} =>
                  disk[h[i].filepath] # ws[i].ino

\* C2 (as claimed): for an upload within the limit the returned file's size
\* is the number of bytes streamed, and a readAll at any moment after the
\* handler returned yields the streamed bytes.  Stated for an invocation
\* that runs alone.
C2_RoundTrip ==
    \A i \in Invocations :
        (/\ Returned(i, "file")
         /\ \A j \in Invocations \ {i} : h[j].pc = "idle") =>
            /\ h[i].result.file.size = ws[i].handed
            /\ Delivered(h[i].result.file) =
                  [ok |-> TRUE, bytes |-> Original(i, ws[i].handed)]

\* C3: an invocation whose filter answered false, or whose directory or file
\* resolved to nothing, has returned undefined, has issued no filesystem
\* operation (no stat, mkdir, open, rm) and has not touched its input: it
\* has no write stream, to which every consumed chunk leads.
C3_SkippedTouchesNothing ==
    \A i \in Invocations :
        (/\ h[i].pc # "idle"
         /\ \/ h[i].args.rejected
            \/ h[i].args.dir = NoValue
            \/ h[i].args.path = NoValue) =>
            /\ Returned(i, NoValue)
            /\ h[i].fsOps = {}
            /\ ws[i] = NoStream

C3_Witness ==
    \E i, j \in Invocations :
        /\ Returned(i, NoValue)
        /\ h[i].args.dir = NoValue
        /\ ~h[i].args.rejected
        /\ Returned(j, "file")
        /\ Exists(h[j].filepath)

\* C4 (as claimed): with avoidFileConflicts, while a file from before is at
\* the first candidate every resolved path differs from it and that file
\* keeps its content; and two uploads made one after the other resolve to
\* different paths, each holding its own upload's bytes once flushed.
C4_DistinctFiles ==
    avoidFileConflicts =>
        /\ \A i \in Invocations :
              (/\ h[i].pc \in {"mkdir", "copy", "rm", "done"}
               /\ h[i].result.kind # NoValue
               /\ disk[0] = 0) =>
                  /\ h[i].filepath # 0
                  /\ content[0] = Original(0, 1)
        /\ \A i, j \in Invocations :
              (/\ Returned(i, "file")
               /\ Returned(j, "file")
               /\ i \in h[j].startedAfter) =>
                  /\ h[i].filepath # h[j].filepath
                  /\ \A k \in {i, j} :
                        Flushed(k) =>
                            Delivered(h[k].result.file).bytes =
                                Original(k, h[k].result.file.size)

\* C8: the bytes handed to the destination never exceed maxFileSize; a step
\* that consumes a chunk is taken only while the total is within the limit,
\* adds the chunk's length first, and hands the chunk to the destination
\* exactly when the new total is at most maxFileSize, otherwise leaves the
\* destination as it was and goes on to fail; the copy ends in a MeterError
\* only that way, so a total equal to maxFileSize succeeds.
C8_Handed ==
    \A i \in Invocations :
        /\ ws[i].handed <= maxFileSize
        /\ h[i].pc = "copy" => h[i].size = ws[i].handed
        /\ h[i].pc = "rm" => h[i].size > maxFileSize
        /\ h[i].result.kind = "file" =>
              h[i].result.file.size = ws[i].handed

C8_Step ==
    \A i \in Invocations :
        /\ h'[i].consumed > h[i].consumed =>
              LET len == h'[i].size - h[i].size
              IN  /\ h[i].pc = "copy"
                  /\ len > 0
                  /\ IF h[i].size + len > maxFileSize
                     THEN /\ h'[i].pc = "rm"
                          /\ ws'[i].handed = ws[i].handed
                          /\ ws'[i].queue = ws[i].queue
                     ELSE /\ h'[i].pc = "copy"
                          /\ ws'[i].handed = h[i].size + len
                          /\ ws'[i].queue =
                                Append(ws[i].queue,
                                       [k \in 1 .. len |->
                                            10 * i + h[i].size + k])
        /\ (h[i].pc = "copy" /\ h'[i].pc = "done") =>
              h'[i].result.kind \in {"file", "StreamError"}
        /\ (h[i].pc = "rm" /\ h'[i].pc # "rm") =>
              /\ h'[i].result.kind = "MeterError"
              /\ ws'[i] = ws[i]

C8_BoundedCopy == [](C8_Handed) /\ [][C8_Step]_vars

C8_Witness ==
    \E i, j \in Invocations :
        /\ Returned(i, "MeterError")
        /\ ws[i].handed > 0
        /\ Returned(j, "file")
        /\ h[j].result.file.size = maxFileSize

\* C9: once the write stream exists, close() has been called exactly once
\* when the handler leaves the copy (input ended, limit passed, input
\* failed) and never before; and the handler calls rm when and only when
\* it fails with the MeterError.
C9_ClosedOnce ==
    \A i \in Invocations :
        /\ ws[i].closeCalls <= 1
        /\ h[i].pc = "copy" => ws[i].closeCalls = 0
        /\ (h[i].pc \in {"rm", "done"} /\ ws[i].state # "none") =>
              ws[i].closeCalls = 1
        /\ h[i].result.kind \in {"file", "StreamError"} =>
              "rm" \notin h[i].fsOps
        /\ h[i].result.kind = "MeterError" => "rm" \in h[i].fsOps

C9_Witness ==
    \E i \in Invocations :
        /\ Returned(i, "StreamError")
        /\ ws[i].handed > 0
        /\ ws[i].closeCalls = 1
        /\ Flushed(i)
        /\ disk[h[i].filepath] = ws[i].ino
        /\ content[ws[i].ino] = Original(i, ws[i].handed)

\* C10: with avoidFileConflicts, two invocations can have passed the probe
\* with the same path; both then write that path: their streams opened the
\* same file, both returned files name that path, and when one stream was
\* opened after the other had closed the path holds the later one's bytes.
C10_ProbeRace ==
    avoidFileConflicts =>
        \A i, j \in Invocations :
            (/\ i # j
             /\ Returned(i, "file")
             /\ Returned(j, "file")
             /\ h[i].filepath = h[j].filepath) =>
                /\ h[i].result.file.filepath = h[j].result.file.filepath
                /\ (Flushed(i) /\ Flushed(j)) =>
                      /\ ws[i].ino = ws[j].ino
                      /\ disk[h[i].filepath] = ws[i].ino
                      /\ i \in ws[j].openedAfter =>
                            Delivered(h[i].result.file).bytes =
                                Original(j, h[j].result.file.size)

C10_Witness ==
    /\ avoidFileConflicts
    /\ Returned(1, "file")
    /\ Returned(2, "file")
    /\ h[1].filepath = h[2].filepath
    /\ h[1].result.file.size = 2
    /\ h[2].result.file.size = 1
    /\ Flushed(1)
    /\ Flushed(2)
    /\ 1 \in ws[2].openedAfter
    /\ Delivered(h[1].result.file).bytes = Original(2, 1)

\* What the slice call that made files[n] asked for.
From(n) == files[origin[n].receiver]
AskedStart(n) == SliceStart(From(n), origin[n].start)
AskedEnd(n) == SliceEnd(From(n), origin[n].end)
InRange(n) ==
    /\ origin[n].receiver # 0
    /\ 0 <= AskedStart(n)
    /\ AskedStart(n) <= AskedEnd(n)
    /\ AskedEnd(n) <= From(n).size

C6_ReReadable ==
    \A n \in 1 .. Len(files) :
        \A k \in 1 .. Len(readLog[n]) :
            /\ readLog[n][k].ok
            /\ readLog[n][k].bytes = readLog[n][1].bytes

\* Every slice call on the way from the whole file to files[n] was in range.
RECURSIVE ChainInRange(_)
ChainInRange(n) ==
    \/ origin[n].receiver = 0
    \/ InRange(n) /\ ChainInRange(origin[n].receiver)

\* The bytes a first read of f delivers.
Exposed(f) ==
    IF f.slicer = 0 THEN content[disk[f.filepath]]
    ELSE SliceOut(Slicer(slicers[f.slicer].start, slicers[f.slicer].end),
                  content[disk[f.filepath]])

\* C7 (as claimed): along a chain of slice calls, each in range of its
\* receiver, the bytes a slice exposes are among the bytes its receiver
\* exposes, and the slice shares the receiver's path.
C7_SliceNarrows ==
    \A n \in 1 .. Len(files) :
        (origin[n].receiver # 0 /\ ChainInRange(n)) =>
            /\ Range(Exposed(files[n])) \subseteq Range(Exposed(From(n)))
            /\ files[n].filepath = From(n).filepath

====
